---- MODULE Spec2Model ----
(***************************************************************************)
(* The report ingestion and question-answering flows of the application    *)
(* (src/ai/flows/answer-questions-about-report.ts): chunkText,             *)
(* getMyCollection, indexReportFlow and answerQuestionsAboutReportFlow,    *)
(* run by concurrent requests against one external vector collection and   *)
(* one external generation model, and the chat page that calls the query   *)
(* flow.  Every await of the code is a separate step of a request.         *)
(***************************************************************************)
EXTENDS Integers, Sequences, FiniteSets, TLC

\* ------------------------------------------------------------------ bounds
\* Longest ingested text, in whole chunks (one more character is added to
\* get a short last chunk).
MaxChunks == 5
\* Requests started in one behaviour.
MaxRequests == 2
\* chunkText on its own: longest text and largest chunk size tried.
MaxTextLen == 4
MaxChunkSize == 3
\* Messages the chat page accepts in one behaviour.
MaxSends == 2
MaxExtracts == 2
MaxUploads == 2
MaxAuthEvents == 3
MaxPosts == 2
MaxSubmits == 3

\* ------------------------------------------------------- program constants
DefaultChunkSize == 1000
NResults == 5

NULL == "null"
UNDEFINED == "undefined"
CollectionName == "reports-collection"
NoInfoAnswer == "I couldn't find any relevant information in your documents to answer that question. Please try uploading more documents or rephrasing your question."
CohereKeyError == "COHERE_API_KEY environment variable not set."
ContextDelimiter == "\n\n---\n\n"
PromptHead == "You are an AI assistant that answers questions based *only* on the provided context from user-uploaded documents. If the answer is not found in the context, say \"I could not find an answer in the provided documents.\"\n\nContext from documents:\n\"\"\"\n"
PromptMid == "\n\"\"\"\n\nQuestion:\n\"\"\"\n"
PromptTail == "\n\"\"\"\n\nBased on the context above, what is the answer?"

\* ------------------------------------------------------------ input sets
Procs == {1, 2}
Modules == {"answer", "index"}
Users == {"userA", "userB"}
ReportIds == {"doc1", "doc2"}
Questions == {"What is my hemoglobin level?"}
ModelTexts == {"I could not find an answer in the provided documents.", "Your hemoglobin is 13.5 g/dL."}

Min(a, b) == IF a < b THEN a ELSE b

RECURSIVE Rep(_, _)
\* s repeated n times.
Rep(s, n) ==
  IF n = 0 THEN ""
  ELSE IF n % 2 = 0 THEN LET h == Rep(s, n \div 2) IN h \o h
  ELSE s \o Rep(s, n - 1)

Pattern == "abcdefg"
\* A text of n characters whose chunks of DefaultChunkSize characters differ.
TextOfLen(n) == SubSeq(Rep(Pattern, (n \div Len(Pattern)) + 1), 1, n)
TextLens == {0, 1, MaxChunks * DefaultChunkSize + 1}
Texts == {TextOfLen(n) : n \in TextLens}

RECURSIVE StringsUpTo(_)
\* Every string over {a, b} of at most n characters.
StringsUpTo(n) ==
  IF n = 0 THEN {""}
  ELSE LET S == StringsUpTo(n - 1) IN S \cup {s \o c : s \in S, c \in {"a", "b"}}

\* ------------------------------------------------------------------ state
VARIABLES
  env,           \* which credentials the process environment holds
  myCollection,  \* per module: the lazily initialised collection handle
  store,         \* the external vector service: the records of every collection
  req,           \* per request slot: the running flow and its locals
  started,       \* requests started so far
  ct,            \* chunkText called on its own: arguments and result
  chat,          \* the chat page: its React state and the reports it listens to
  ex,            \* the text-extraction flow: the deployed variant and its request
  rp,            \* the reports page: its React state, Firestore and Storage
  ci,            \* chunk ids computed for two ingestions, on their own
  up,            \* UserProvider in each browser session, and the profile documents
  sms,           \* the SMS route: its request and its call of the provider
  rem            \* the reminders page: its form state and its history

vars == <<env, myCollection, store, req, started, ct, chat, ex, rp, ci, up, sms, rem>>

\* ---------------------------------------------------------------- chunkText
\* (mutant) substring taking the end index as inclusive.
SubstringInclusive(s, start, end) == SubSeq(s, Min(start, Len(s)) + 1, Min(end + 1, Len(s)))

\* String.prototype.substring(start, end) for 0 <= start <= end.
Substring(s, start, end) == SubSeq(s, Min(start, Len(s)) + 1, Min(end, Len(s)))

RECURSIVE ChunkLoop(_, _, _, _)
\* for (let i = 0; i < text.length; i += chunkSize) chunks.push(...)
ChunkLoop(text, chunkSize, i, chunks) ==
  IF i < Len(text)
  THEN ChunkLoop(text, chunkSize, i + chunkSize,
                 Append(chunks, Substring(text, i, i + chunkSize)))
  ELSE chunks

chunkText(text, chunkSize) == ChunkLoop(text, chunkSize, 0, <<>>)

\* ------------------------------------------------------- indexReportFlow data
\* (mutant) ids counted from one.
ChunkIdOneBased(reportId, index) == reportId \o "-chunk-" \o ToString(index + 1)

\* (mutant) ids that leave the document out.
ChunkIdIndexOnly(reportId, index) == "chunk-" \o ToString(index)

ChunkId(reportId, index) == reportId \o "-chunk-" \o ToString(index)

ChunkIds(input, textChunks) ==
  [k \in 1..Len(textChunks) |-> ChunkId(input.reportId, k - 1)]

\* (mutant) metadata that names the owner only.
MetadatasOwnerOnly(input, textChunks) ==
  [k \in 1..Len(textChunks) |-> [userId |-> input.userId]]

Metadatas(input, textChunks) ==
  [k \in 1..Len(textChunks) |-> [userId |-> input.userId, reportId |-> input.reportId]]

AddArgs(input, textChunks) ==
  [ids |-> ChunkIds(input, textChunks),
   documents |-> textChunks,
   metadatas |-> Metadatas(input, textChunks)]

\* ------------------------------------------- answerQuestionsAboutReportFlow data
\* (mutant) a query without the owner filter.
QueryWhereNothing(input) == <<>>

QueryWhere(input) == [userId |-> input.userId]

\* (mutant) a query that asks for ten results.
QueryArgsTen(input) ==
  [queryTexts |-> <<input.question>>, nResults |-> 10, where |-> QueryWhere(input)]

QueryArgs(input) ==
  [queryTexts |-> <<input.question>>, nResults |-> NResults, where |-> QueryWhere(input)]

RECURSIVE Join(_, _)
\* Array.prototype.join(separator)
Join(docs, sep) ==
  IF Len(docs) = 0 THEN ""
  ELSE IF Len(docs) = 1 THEN docs[1]
  ELSE docs[1] \o sep \o Join(Tail(docs), sep)

\* (mutant) the chunks joined by a bare line of dashes.
ContextBareRule(retrievedDocs) == Join(retrievedDocs, "\n---\n")

Context(retrievedDocs) == Join(retrievedDocs, ContextDelimiter)

FinalPrompt(context, question) ==
  PromptHead \o context \o PromptMid \o question \o PromptTail

\* The input schema of the query flow: question and userId are both strings.
AnswerSchemaOk(input) == input.question # UNDEFINED /\ input.userId # UNDEFINED

\* --------------------------------------------------- the external services
\* A record of the vector service: the collection it is in, its id, text and
\* metadata, and (history) the owner whose ingestion request wrote it.
StoreIds(coll) == {store[k].id : k \in {j \in 1..Len(store) : store[j].coll = coll}}

RECURSIVE NewRecords(_, _, _, _, _)
\* collection.add: one record per id, in order; an id the collection holds is
\* left as it is.
NewRecords(coll, args, by, k, have) ==
  IF k > Len(args.ids) THEN <<>>
  ELSE IF args.ids[k] \in have THEN NewRecords(coll, args, by, k + 1, have)
  ELSE <<[coll |-> coll, id |-> args.ids[k], document |-> args.documents[k],
          metadata |-> args.metadatas[k], by |-> by]>>
       \o NewRecords(coll, args, by, k + 1, have \cup {args.ids[k]})

\* (mutant) a write that replaces the records whose ids it brings.
CollectionUpsert(coll, args, by) ==
  SelectSeq(store, LAMBDA rec : ~(rec.coll = coll
                                  /\ rec.id \in {args.ids[k] : k \in 1..Len(args.ids)}))
  \o NewRecords(coll, args, by, 1, {})

CollectionAdd(coll, args, by) == store \o NewRecords(coll, args, by, 1, StoreIds(coll))

\* The vector service outlives the process: at process start the collection is
\* empty or holds what an earlier ingestion by userB wrote.
EarlierInput == [text |-> TextOfLen(1), reportId |-> "doc1", userId |-> "userB"]
InitialStores ==
  {<<>>,
   NewRecords(CollectionName,
              AddArgs(EarlierInput, chunkText(EarlierInput.text, DefaultChunkSize)),
              EarlierInput.userId, 1, {})}

\* The where filter of collection.query: every key of the filter is a key of
\* the record's metadata with the same value.
Matches(rec, where) ==
  \A key \in DOMAIN where : key \in DOMAIN rec.metadata /\ rec.metadata[key] = where[key]

Reverse(s) == [k \in 1..Len(s) |-> s[Len(s) + 1 - k]]

\* collection.query: the first n (at most nResults) records of the collection
\* that match the filter, by one of the two relevance rankings tried.
CollectionQuery(coll, args, ranking, n) ==
  LET matching == SelectSeq(store, LAMBDA rec : rec.coll = coll /\ Matches(rec, args.where))
      ranked == IF ranking = "forward" THEN matching ELSE Reverse(matching)
  IN SubSeq(ranked, 1, Min(n, Min(args.nResults, Len(ranked))))

\* ------------------------------------------------------------- request slots
IdleReq ==
  [kind |-> "none", pc |-> "idle", input |-> [none |-> TRUE], caller |-> "none",
   textChunks |-> <<>>, retrieved |-> <<>>, calls |-> <<>>, caught |-> "none",
   result |-> [kind |-> "none"]]

\* An outbound call: what was sent, whether it settled, and (history) what
\* the service answered.
Call(op, args) == [op |-> op, args |-> args, status |-> "pending", response |-> "none"]

\* (mutant) the call left unawaited: the flow goes on while it is pending.
SettleForgotten(r, status) == r

\* The request's last outbound call, settled.
Settle(r, status) ==
  [r EXCEPT !.calls[Len(r.calls)].status = status]

\* The request's last outbound call, resolved with a response.
SettleWith(r, response) ==
  LET s == Settle(r, "ok")
  IN [s EXCEPT !.calls[Len(s.calls)].response = response]

Return(r, value) == [r EXCEPT !.pc = "done", !.result = [kind |-> "return", value |-> value]]
\* (mutant) a failure answered with the no-information reply.
ThrowSwallowed(r, error) ==
  [r EXCEPT !.pc = "done", !.result = [kind |-> "return", value |-> [answer |-> NoInfoAnswer]]]

Throw(r, error) == [r EXCEPT !.pc = "done", !.result = [kind |-> "throw", error |-> error]]

\* (mutant) a catch block that rethrows.
IndexCatchRethrow(r, error) ==
  Throw([r EXCEPT !.caught = error], error)

\* The ingestion flow's catch block.
IndexCatch(r, error) ==
  Return([r EXCEPT !.caught = error], [success |-> FALSE])

CanStart(p) == req[p].pc \in {"idle", "done"} /\ started < MaxRequests

\* ------------------------------------------------------------ getMyCollection
\* (mutant) the handle initialised on every call.
NeedsInitAlways(m) == TRUE

\* if (!myCollection)
NeedsInit(m) == myCollection[m] = NULL

\* (mutant) the key check dropped.
CohereKeyNotChecked == FALSE

\* if (!process.env.COHERE_API_KEY)
CohereKeyMissing == ~env.COHERE_API_KEY

\* The flow's next call on the collection, once it has the handle.
UseCollection(r) ==
  IF r.kind = "index"
  THEN [r EXCEPT !.pc = "awaitAdd",
                 !.calls = Append(r.calls, Call("add", AddArgs(r.input, r.textChunks)))]
  ELSE [r EXCEPT !.pc = "awaitQuery",
                 !.calls = Append(r.calls, Call("query", QueryArgs(r.input)))]

\* A failure of getMyCollection, as the calling flow sees it.
GetCollectionFailed(r, error) ==
  IF r.kind = "index" THEN IndexCatch(r, error) ELSE Throw(r, error)

\* await getMyCollection(), up to its first await.
GetMyCollection(r, m) ==
  IF NeedsInit(m)
  THEN IF CohereKeyMissing
       THEN GetCollectionFailed(r, CohereKeyError)
       ELSE [r EXCEPT !.pc = "awaitCreate",
                      !.calls = Append(r.calls, Call("getOrCreateCollection",
                                                     [name |-> CollectionName]))]
  ELSE UseCollection(r)

\* ------------------------------------------------------------------ actions
\* (mutant) the empty-text check dropped.
NoTextChunksIgnored(textChunks) == FALSE

\* if (textChunks.length === 0)
NoTextChunks(textChunks) == Len(textChunks) = 0

\* indexReport(input) up to its first await.
IndexReport(p, input) ==
  /\ CanStart(p)
  /\ LET textChunks == chunkText(input.text, DefaultChunkSize)
         r == [IdleReq EXCEPT !.kind = "index", !.input = input, !.caller = "server",
                              !.textChunks = textChunks]
     IN req' = [req EXCEPT ![p] =
                  IF NoTextChunks(textChunks)
                  THEN Return(r, [success |-> TRUE])
                  ELSE GetMyCollection(r, "index")]
  /\ started' = started + 1
  /\ UNCHANGED <<env, myCollection, store, ct, chat, ex, rp, ci, up, sms, rem>>

\* answerQuestionsAboutReport(input) up to its first await.
AnswerBegin(input, caller) ==
  LET r == [IdleReq EXCEPT !.kind = "answer", !.input = input, !.caller = caller]
  IN IF AnswerSchemaOk(input)
     THEN GetMyCollection(r, "answer")
     ELSE Throw(r, "INVALID_ARGUMENT")

\* The server action called by a client that passes the schema's fields.
AnswerQuestionsAboutReport(p, input) ==
  /\ CanStart(p)
  /\ req' = [req EXCEPT ![p] = AnswerBegin(input, "server")]
  /\ started' = started + 1
  /\ UNCHANGED <<env, myCollection, store, ct, chat, ex, rp, ci, up, sms, rem>>

\* chromaClient.getOrCreateCollection settles: the handle is stored and the
\* flow goes on to its call on the collection, or the failure reaches the flow.
GetOrCreateCollectionReturns(p, ok) ==
  /\ req[p].pc = "awaitCreate"
  /\ ok => env.CHROMA_CREDENTIALS
  /\ IF ok
     THEN /\ myCollection' = [myCollection EXCEPT ![req[p].kind] = CollectionName]
          /\ req' = [req EXCEPT ![p] = UseCollection(Settle(req[p], "ok"))]
     ELSE /\ req' = [req EXCEPT ![p] =
                       GetCollectionFailed(Settle(req[p], "failed"), "getOrCreateCollection failed")]
          /\ UNCHANGED myCollection
  /\ UNCHANGED <<env, store, started, ct, chat, ex, rp, ci, up, sms, rem>>

\* collection.add settles.
AddReturns(p, ok) ==
  /\ req[p].pc = "awaitAdd"
  /\ IF ok
     THEN /\ store' = CollectionAdd(myCollection["index"],
                                    req[p].calls[Len(req[p].calls)].args, req[p].input.userId)
          /\ req' = [req EXCEPT ![p] = Return(Settle(req[p], "ok"), [success |-> TRUE])]
     ELSE /\ req' = [req EXCEPT ![p] = IndexCatch(Settle(req[p], "failed"), "add failed")]
          /\ UNCHANGED store
  /\ UNCHANGED <<env, myCollection, started, ct, chat, ex, rp, ci, up, sms, rem>>

\* (mutant) the empty-result check dropped.
NoRetrievedDocsIgnored(retrievedDocs) == FALSE

\* if (retrievedDocs.length === 0)
NoRetrievedDocs(retrievedDocs) == Len(retrievedDocs) = 0

\* The flow after collection.query resolved with queryResults.
AfterQuery(r, queryResults) ==
  LET retrievedDocs == [k \in 1..Len(queryResults) |-> queryResults[k].document]
      context == Context(retrievedDocs)
      r1 == [r EXCEPT !.retrieved = queryResults]
  IN IF NoRetrievedDocs(retrievedDocs)
     THEN Return(r1, [answer |-> NoInfoAnswer])
     ELSE [r1 EXCEPT !.pc = "awaitGenerate",
                     !.calls = Append(r1.calls,
                                      Call("generate",
                                           [model |-> "googleai/gemini-1.5-flash",
                                            prompt |-> FinalPrompt(context, r.input.question)]))]

\* collection.query settles.
QueryReturns(p, ok, ranking, n) ==
  /\ req[p].pc = "awaitQuery"
  /\ IF ok
     THEN req' = [req EXCEPT ![p] =
                    LET queryResults == CollectionQuery(myCollection["answer"],
                                                        req[p].calls[Len(req[p].calls)].args,
                                                        ranking, n)
                    IN AfterQuery(SettleWith(req[p], queryResults), queryResults)]
     ELSE /\ ranking = "forward" /\ n = 0
          /\ req' = [req EXCEPT ![p] = Throw(Settle(req[p], "failed"), "query failed")]
  /\ UNCHANGED <<env, myCollection, store, started, ct, chat, ex, rp, ci, up, sms, rem>>

\* (mutant) an answer with surrounding whitespace added.
AnswerOfPadded(text) == [answer |-> text \o "\n"]

\* return { answer: text }
AnswerOf(text) == [answer |-> text]

\* ai.generate settles.
GenerateReturns(p, ok, text) ==
  /\ req[p].pc = "awaitGenerate"
  /\ IF ok
     THEN req' = [req EXCEPT ![p] = Return(SettleWith(req[p], text), AnswerOf(text))]
     ELSE /\ text = CHOOSE t \in ModelTexts : TRUE
          /\ req' = [req EXCEPT ![p] = Throw(Settle(req[p], "failed"), "generate failed")]
  /\ UNCHANGED <<env, myCollection, store, started, ct, chat, ex, rp, ci, up, sms, rem>>

\* ------------------------------------------------------------ the chat page
ChatQuestion == "What is my hemoglobin level?"
ChatInputs == {"", "  ", ChatQuestion}
ReportWithText == [name |-> "blood.png", text |-> "Hemoglobin 13.5 g/dL"]
ReportEmptyText == [name |-> "scan.png", text |-> ""]
ReportNoText == [name |-> "photo.png", text |-> UNDEFINED]
\* What useCollection hands the page: null until loaded, then the list.
NoData == [isNull |-> TRUE, list |-> <<>>]
Loaded(list) == [isNull |-> FALSE, list |-> list]
ReportLists ==
  {NoData, Loaded(<<>>), Loaded(<<ReportWithText>>), Loaded(<<ReportEmptyText>>),
   Loaded(<<ReportNoText, ReportWithText>>)}

\* (mutant) the blank-input check dropped.
IsBlankNever(s) == FALSE

\* input.trim() === ''
IsBlank(s) == \A k \in 1..Len(s) : SubSeq(s, k, k) = " "

\* Boolean(value) of a string or undefined, as Array.prototype.filter uses it.
Truthy(s) == s # UNDEFINED /\ s # ""

\* reports.map(...).filter(Boolean) of the two versions of the page.
ReportTexts(version, reports) ==
  LET mapped == [k \in 1..Len(reports) |->
                   IF version = "page" THEN reports[k].text
                   ELSE "Report Name: " \o reports[k].name \o "\nContent:\n" \o reports[k].text]
  IN SelectSeq(mapped, Truthy)

NoTextReply(version) ==
  IF version = "page"
  THEN "It seems none of your uploaded reports have extractable text. Please try uploading different documents."
  ELSE "It seems none of your uploaded reports contain extractable text. Please try uploading different documents."

ErrorReply(version) ==
  IF version = "page"
  THEN "Sorry, I couldn't process that. Please try again."
  ELSE "Sorry, I encountered an error while processing your question. Please try again."

NoReportsToast(version) == IF version = "page" THEN "No Reports" ELSE "No Reports Found"
ErrorToast(version) == IF version = "page" THEN "AI Error" ELSE "AI Communication Error"

\* The argument handleSendMessage passes to answerQuestionsAboutReport: the
\* report texts and the question; a field it does not set reads as undefined.
ChatFlowInput(reportTexts, input) ==
  [reports |-> reportTexts, question |-> input, userId |-> UNDEFINED]

\* !reports || reports.length === 0
NoReports == chat.reports.isNull \/ Len(chat.reports.list) = 0

\* The useCollection listener delivers the user's reports.
ChatReportsSnapshot(reports) ==
  /\ chat.reports # reports
  /\ chat' = [chat EXCEPT !.reports = reports]
  /\ UNCHANGED <<env, myCollection, store, req, started, ct, ex, rp, ci, up, sms, rem>>

\* onChange of the input, which is disabled while loading or without reports.
ChatSetInput(value) ==
  /\ ~(chat.isLoading \/ NoReports)
  /\ chat.input # value
  /\ chat' = [chat EXCEPT !.input = value]
  /\ UNCHANGED <<env, myCollection, store, req, started, ct, ex, rp, ci, up, sms, rem>>

\* handleSendMessage up to its await.
ChatHandleSendMessage(p) ==
  /\ CanStart(p)
  /\ Len(chat.messages) < 2 * MaxSends
  /\ IF IsBlank(chat.input) \/ chat.isLoading
     THEN UNCHANGED <<chat, req, started>>
     ELSE IF NoReports
     THEN /\ chat' = [chat EXCEPT !.toast = NoReportsToast(chat.version)]
          /\ UNCHANGED <<req, started>>
     ELSE LET reportTexts == ReportTexts(chat.version, chat.reports.list)
              sent == [chat EXCEPT !.messages = Append(@, [sender |-> "user", text |-> chat.input]),
                                   !.input = "", !.isLoading = TRUE]
          IN IF Len(reportTexts) = 0
             THEN /\ chat' = [sent EXCEPT !.messages = Append(@, [sender |-> "ai",
                                                                  text |-> NoTextReply(chat.version)]),
                                          !.isLoading = FALSE]
                  /\ UNCHANGED <<req, started>>
             ELSE /\ chat' = [sent EXCEPT !.slot = p]
                  /\ req' = [req EXCEPT ![p] = AnswerBegin(ChatFlowInput(reportTexts, chat.input), "chat")]
                  /\ started' = started + 1
  /\ UNCHANGED <<env, myCollection, store, ct, ex, rp, ci, up, sms, rem>>

\* handleSendMessage after its await: the answer, or the catch block, then
\* the finally block.
ChatAnswerSettles(p) ==
  /\ chat.slot = p
  /\ req[p].caller = "chat" /\ req[p].pc = "done"
  /\ chat' = IF req[p].result.kind = "return"
             THEN [chat EXCEPT !.messages = Append(@, [sender |-> "ai",
                                                       text |-> req[p].result.value.answer]),
                               !.isLoading = FALSE, !.slot = 0]
             ELSE [chat EXCEPT !.messages = Append(@, [sender |-> "ai",
                                                       text |-> ErrorReply(chat.version)]),
                               !.toast = ErrorToast(chat.version),
                               !.isLoading = FALSE, !.slot = 0]
  /\ UNCHANGED <<env, myCollection, store, req, started, ct, ex, rp, ci, up, sms, rem>>

\* ------------------------------------------------------ JSON.parse (subset)
\* JSON.parse on the texts tried: objects, arrays, strings with the escapes
\* \" \\ \/ \n \t, numbers without exponent, true, false, null, whitespace.
Ch(s, i) == IF i >= 1 /\ i <= Len(s) THEN SubSeq(s, i, i) ELSE ""
IsWs(c) == c \in {" ", "\n", "\t", "\r"}
IsDigit(c) == c \in {"0", "1", "2", "3", "4", "5", "6", "7", "8", "9"}
StartsWith(s, i, lit) == i + Len(lit) - 1 <= Len(s) /\ SubSeq(s, i, i + Len(lit) - 1) = lit

RECURSIVE SkipWs(_, _)
SkipWs(s, i) == IF IsWs(Ch(s, i)) THEN SkipWs(s, i + 1) ELSE i

RECURSIVE SkipDigits(_, _)
SkipDigits(s, i) == IF IsDigit(Ch(s, i)) THEN SkipDigits(s, i + 1) ELSE i

JsonFail == [ok |-> FALSE]
JsonOk(val, next) == [ok |-> TRUE, val |-> val, next |-> next]

RECURSIVE ScanString(_, _, _)
\* The string whose opening quote precedes position i.
ScanString(s, i, acc) ==
  LET c == Ch(s, i)
      e == Ch(s, i + 1)
  IN IF c = "" \/ c \in {"\n", "\t", "\r"} THEN JsonFail
     ELSE IF c = "\"" THEN JsonOk([type |-> "string", str |-> acc], i + 1)
     ELSE IF c = "\\"
     THEN IF e \in {"\"", "\\", "/"} THEN ScanString(s, i + 2, acc \o e)
          ELSE IF e = "n" THEN ScanString(s, i + 2, acc \o "\n")
          ELSE IF e = "t" THEN ScanString(s, i + 2, acc \o "\t")
          ELSE JsonFail
     ELSE ScanString(s, i + 1, acc \o c)

ScanNumber(s, i) ==
  LET d == IF Ch(s, i) = "-" THEN i + 1 ELSE i
      e == SkipDigits(s, d)
      f == IF Ch(s, e) = "." THEN SkipDigits(s, e + 1) ELSE e
  IN IF e = d \/ (Ch(s, d) = "0" /\ e > d + 1) \/ (Ch(s, e) = "." /\ f = e + 1)
     THEN JsonFail
     ELSE JsonOk([type |-> "number", src |-> SubSeq(s, i, f - 1)], f)

RECURSIVE ParseValue(_, _)
RECURSIVE ParseMembers(_, _, _, _)
RECURSIVE ParseElements(_, _, _)

ParseValue(s, i0) ==
  LET i == SkipWs(s, i0)
      c == Ch(s, i)
  IN IF c = "{"
     THEN IF Ch(s, SkipWs(s, i + 1)) = "}"
          THEN JsonOk([type |-> "object", keys |-> <<>>, vals |-> <<>>], SkipWs(s, i + 1) + 1)
          ELSE ParseMembers(s, SkipWs(s, i + 1), <<>>, <<>>)
     ELSE IF c = "["
     THEN IF Ch(s, SkipWs(s, i + 1)) = "]"
          THEN JsonOk([type |-> "array", items |-> <<>>], SkipWs(s, i + 1) + 1)
          ELSE ParseElements(s, i + 1, <<>>)
     ELSE IF c = "\"" THEN ScanString(s, i + 1, "")
     ELSE IF c = "-" \/ IsDigit(c) THEN ScanNumber(s, i)
     ELSE IF StartsWith(s, i, "true") THEN JsonOk([type |-> "true"], i + 4)
     ELSE IF StartsWith(s, i, "false") THEN JsonOk([type |-> "false"], i + 5)
     ELSE IF StartsWith(s, i, "null") THEN JsonOk([type |-> "null"], i + 4)
     ELSE JsonFail

\* The members of an object from the key at position i on.
ParseMembers(s, i, keys, vals) ==
  IF Ch(s, i) # "\"" THEN JsonFail
  ELSE LET key == ScanString(s, i + 1, "")
       IN IF ~key.ok THEN JsonFail
          ELSE LET colon == SkipWs(s, key.next)
               IN IF Ch(s, colon) # ":" THEN JsonFail
                  ELSE LET v == ParseValue(s, colon + 1)
                       IN IF ~v.ok THEN JsonFail
                          ELSE LET after == SkipWs(s, v.next)
                                   keys1 == Append(keys, key.val.str)
                                   vals1 == Append(vals, v.val)
                               IN IF Ch(s, after) = ","
                                  THEN ParseMembers(s, SkipWs(s, after + 1), keys1, vals1)
                                  ELSE IF Ch(s, after) = "}"
                                  THEN JsonOk([type |-> "object", keys |-> keys1,
                                               vals |-> vals1], after + 1)
                                  ELSE JsonFail

\* The elements of an array from position i on.
ParseElements(s, i, items) ==
  LET v == ParseValue(s, i)
  IN IF ~v.ok THEN JsonFail
     ELSE LET after == SkipWs(s, v.next)
              items1 == Append(items, v.val)
          IN IF Ch(s, after) = "," THEN ParseElements(s, after + 1, items1)
             ELSE IF Ch(s, after) = "]"
             THEN JsonOk([type |-> "array", items |-> items1], after + 1)
             ELSE JsonFail

\* JSON.parse(text): one value and nothing but whitespace after it.
JSONParse(text) ==
  LET r == ParseValue(text, 1)
  IN IF r.ok /\ SkipWs(text, r.next) > Len(text) THEN r ELSE JsonFail

\* parsed[key] of an object: the last member of that name.
KeyIndices(obj, key) == {k \in 1..Len(obj.keys) : obj.keys[k] = key}
Field(obj, key) ==
  obj.vals[CHOOSE k \in KeyIndices(obj, key) : \A j \in KeyIndices(obj, key) : j <= k]

\* ------------------------------------------------------- text extraction
\* (mutant) a schema that takes any value of the text field.
OutputSchemaParseAnyText(val) ==
  IF val.type = "object" /\ KeyIndices(val, "text") # {}
  THEN [ok |-> TRUE,
        value |-> [text |-> IF Field(val, "text").type = "string"
                            THEN Field(val, "text").str ELSE "[object]"]]
  ELSE [ok |-> FALSE]

\* ExtractTextFromDocumentOutputSchema.parse(parsed): an object whose text
\* is a string; other keys are dropped.
OutputSchemaParse(val) ==
  IF val.type = "object" /\ KeyIndices(val, "text") # {}
       /\ Field(val, "text").type = "string"
  THEN [ok |-> TRUE, value |-> [text |-> Field(val, "text").str]]
  ELSE [ok |-> FALSE]

\* The try/catch of the flow that parses the model's text itself.
ParseWithFallback(text) ==
  LET parsed == JSONParse(text)
      out == IF parsed.ok THEN OutputSchemaParse(parsed.val) ELSE [ok |-> FALSE]
  IN IF out.ok THEN out.value ELSE [text |-> text]

\* The two versions of the flow: "fallback" asks for free text and parses it,
\* "structured" asks the prompt for schema-checked output.
ExtractVariants == {"fallback", "structured"}

RawResponses ==
  {"{\"text\": \"Hemoglobin 13.5 g/dL\"}",
   "{ \"text\" : \"WBC 7.2\", \"pages\": 2 }\n",
   "{\"text\": \"\"}",
   "{\"text\": \"He said \\\"normal\\\"\"}",
   "{\"text\": \"first\", \"text\": \"second\"}",
   "{\"text\": 42}",
   "{\"text\": null}",
   "{\"content\": \"Hemoglobin 13.5 g/dL\"}",
   "{\"text\": \"Hemoglobin 13.5 g/dL\"",
   "{\"text\": \"Hemoglobin 13.5 g/dL\"} Done.",
   "Here is the JSON:\n{\"text\": \"Hemoglobin 13.5 g/dL\"}",
   "[\"Hemoglobin 13.5 g/dL\"]",
   "\"Hemoglobin 13.5 g/dL\"",
   "Hemoglobin 13.5 g/dL",
   "13.5",
   "null",
   ""}

StructuredOutputs == {"Hemoglobin 13.5 g/dL", ""}

UploadFiles ==
  {[name |-> "blood.png", type |-> "image/png", data |-> "iVBORw0KGgo="],
   [name |-> "scan.pdf", type |-> "application/pdf", data |-> "JVBERi0xLjQ="],
   [name |-> "xray.jpg", type |-> "image/jpeg", data |-> "/9j/4AAQSkZJRg=="]}

\* FileReader.readAsDataURL's result.
DataUri(file) == "data:" \o file.type \o ";base64," \o file.data

ExtractInputs == {[fileDataUri |-> DataUri(f)] : f \in UploadFiles}

ExIdle(variant) ==
  [variant |-> variant, pc |-> "idle", caller |-> "none", input |-> [none |-> TRUE],
   modelCalls |-> 0, raw |-> "none", result |-> [kind |-> "none"], count |-> 0]

\* extractTextFromDocument(input) up to its await: the one call of the model.
ExtractBegin(input, caller) ==
  [ex EXCEPT !.pc = "awaitModel", !.caller = caller, !.input = input,
             !.modelCalls = 1, !.raw = "none", !.result = [kind |-> "none"],
             !.count = @ + 1]

CanExtract == ex.pc \in {"idle", "done"} /\ ex.count < MaxExtracts

\* The server action called by a client other than the reports page.
ExtractTextFromDocument(input) ==
  /\ CanExtract
  /\ rp.pc # "awaitExtract"
  /\ ex' = ExtractBegin(input, "server")
  /\ UNCHANGED <<env, myCollection, store, req, started, ct, chat, rp, ci, up, sms, rem>>

\* (mutant) a second call of the model when the first answer does not parse.
ExtractAfterGenerateRetry(raw) ==
  [ex EXCEPT !.pc = "done", !.raw = raw,
             !.modelCalls = IF JSONParse(raw).ok THEN 1 ELSE 2,
             !.result = [kind |-> "return", value |-> ParseWithFallback(raw)]]

\* The flow after ai.generate resolved with text.
ExtractAfterGenerate(raw) ==
  [ex EXCEPT !.pc = "done", !.raw = raw,
             !.result = [kind |-> "return", value |-> ParseWithFallback(raw)]]

\* ai.generate settles in the flow that parses the text itself.
ExtractGenerateReturns(ok, raw) ==
  /\ ex.variant = "fallback" /\ ex.pc = "awaitModel"
  /\ IF ok
     THEN ex' = ExtractAfterGenerate(raw)
     ELSE /\ raw = ""
          /\ ex' = [ex EXCEPT !.pc = "done",
                              !.result = [kind |-> "throw", error |-> "generate failed"]]
  /\ UNCHANGED <<env, myCollection, store, req, started, ct, chat, rp, ci, up, sms, rem>>

\* extractTextPrompt settles in the flow that asks for structured output: the
\* schema-checked output, or an error when the model gave none.
ExtractPromptReturns(ok, text) ==
  /\ ex.variant = "structured" /\ ex.pc = "awaitModel"
  /\ IF ok
     THEN ex' = [ex EXCEPT !.pc = "done",
                           !.result = [kind |-> "return", value |-> [text |-> text]]]
     ELSE /\ text = ""
          /\ ex' = [ex EXCEPT !.pc = "done",
                              !.result = [kind |-> "throw", error |-> "prompt failed"]]
  /\ UNCHANGED <<env, myCollection, store, req, started, ct, chat, rp, ci, up, sms, rem>>

\* ------------------------------------------------------------ reports page
PageUser == "userA"

\* ref(storage, `users/${user.uid}/reports/${file.name}_${Date.now()}`)
StoragePath(file, now) ==
  "users/" \o PageUser \o "/reports/" \o file.name \o "_" \o ToString(now)

\* getDownloadURL(snapshot.ref)
DownloadURL(path) == "https://firebasestorage/" \o path

\* The document addDoc writes, under the id Firestore gives it.
ReportDoc(id, file, text, imageUrl) ==
  [id |-> id, name |-> file.name, text |-> text, imageUrl |-> imageUrl]

EarlierReport ==
  ReportDoc("r0", [name |-> "old.png"], "Glucose 90",
            DownloadURL(StoragePath([name |-> "old.png"], 0)))

DelIdle == [pc |-> "idle", report |-> [none |-> TRUE], outcome |-> "none"]

RpClosed ==
  [pc |-> "closed", isUploading |-> FALSE, file |-> [none |-> TRUE], text |-> "none",
   path |-> "none", imageUrl |-> "none", toast |-> "none", outcome |-> "none",
   docs |-> <<>>, objects |-> {}, del |-> DelIdle, uploads |-> 0]

\* The page as mounted: a signed-in user, nothing uploading.
RpOpen(docs) ==
  [RpClosed EXCEPT !.pc = "idle", !.docs = docs,
                   !.objects = {docs[k].imageUrl : k \in 1..Len(docs)}]

\* handleFileChange up to the end of its try block: the flag set, the reader
\* started and its two callbacks installed.
UploadStarted(file) ==
  [rp EXCEPT !.pc = "reading", !.isUploading = TRUE, !.file = file, !.text = "none",
             !.path = "none", !.imageUrl = "none", !.outcome = "none",
             !.uploads = @ + 1]

\* handleFileChange(files) with a file chosen; the input and the drop zone
\* take no file while isUploading.
HandleFileChange(file) ==
  /\ rp.pc = "idle" /\ ~rp.isUploading
  /\ rp.uploads < MaxUploads
  /\ rp' = UploadStarted(file)
  /\ UNCHANGED <<env, myCollection, store, req, started, ct, chat, ex, ci, up, sms, rem>>

\* reader.onerror
ReaderOnError ==
  /\ rp.pc = "reading"
  /\ rp' = [rp EXCEPT !.pc = "idle", !.toast = "Error", !.isUploading = FALSE,
                      !.outcome = "readError"]
  /\ UNCHANGED <<env, myCollection, store, req, started, ct, chat, ex, ci, up, sms, rem>>

\* reader.onload up to its first await.
ReaderOnLoad ==
  /\ rp.pc = "reading"
  /\ ex.pc \in {"idle", "done"}
  /\ ex' = ExtractBegin([fileDataUri |-> DataUri(rp.file)], "page")
  /\ rp' = [rp EXCEPT !.pc = "awaitExtract"]
  /\ UNCHANGED <<env, myCollection, store, req, started, ct, chat, ci, up, sms, rem>>

\* An await of reader.onload rejects: the promise of the callback rejects and
\* nothing else of the callback runs.
OnLoadRejected == [rp EXCEPT !.pc = "idle", !.outcome = "rejected"]

\* extractTextFromDocument settles in reader.onload.
OnLoadExtractSettles ==
  /\ rp.pc = "awaitExtract"
  /\ ex.pc = "done" /\ ex.caller = "page"
  /\ rp' = IF ex.result.kind = "return"
           THEN [rp EXCEPT !.pc = "awaitUploadBytes", !.text = ex.result.value.text,
                           !.path = StoragePath(rp.file, rp.uploads)]
           ELSE OnLoadRejected
  /\ ex' = [ExIdle(ex.variant) EXCEPT !.count = ex.count]
  /\ UNCHANGED <<env, myCollection, store, req, started, ct, chat, ci, up, sms, rem>>

\* uploadBytes settles.
UploadBytesReturns(ok) ==
  /\ rp.pc = "awaitUploadBytes"
  /\ rp' = IF ok
           THEN [rp EXCEPT !.pc = "awaitDownloadURL", !.objects = @ \cup {DownloadURL(rp.path)}]
           ELSE OnLoadRejected
  /\ UNCHANGED <<env, myCollection, store, req, started, ct, chat, ex, ci, up, sms, rem>>

\* getDownloadURL settles.
GetDownloadURLReturns(ok) ==
  /\ rp.pc = "awaitDownloadURL"
  /\ rp' = IF ok
           THEN [rp EXCEPT !.pc = "awaitAddDoc", !.imageUrl = DownloadURL(rp.path)]
           ELSE OnLoadRejected
  /\ UNCHANGED <<env, myCollection, store, req, started, ct, chat, ex, ci, up, sms, rem>>

\* addDoc settles; the success toast ends reader.onload.
AddDocReturns(ok) ==
  /\ rp.pc = "awaitAddDoc"
  /\ rp' = IF ok
           THEN [rp EXCEPT !.pc = "idle", !.toast = "Success", !.outcome = "success",
                   !.docs = Append(@, ReportDoc("r" \o ToString(rp.uploads), rp.file,
                                                rp.text, rp.imageUrl))]
           ELSE OnLoadRejected
  /\ UNCHANGED <<env, myCollection, store, req, started, ct, chat, ex, ci, up, sms, rem>>

\* Firestore without the document of that id.
WithoutDoc(docs, id) == SelectSeq(docs, LAMBDA d : d.id # id)

\* handleDelete(report) up to its first await; nothing happens when the user
\* does not confirm.
HandleDelete(k, isConfirmed) ==
  /\ rp.pc # "closed" /\ rp.del.pc = "idle"
  /\ k \in 1..Len(rp.docs)
  /\ rp' = IF isConfirmed
           THEN [rp EXCEPT !.del = [pc |-> "awaitDeleteDoc", report |-> rp.docs[k],
                                   outcome |-> "none"]]
           ELSE rp
  /\ UNCHANGED <<env, myCollection, store, req, started, ct, chat, ex, ci, up, sms, rem>>

\* deleteDoc settles.
DeleteDocReturns(ok) ==
  /\ rp.del.pc = "awaitDeleteDoc"
  /\ rp' = IF ok
           THEN [rp EXCEPT !.docs = WithoutDoc(@, rp.del.report.id),
                           !.del.pc = "awaitDeleteObject"]
           ELSE [rp EXCEPT !.toast = "Deletion Failed", !.del.pc = "idle",
                           !.del.outcome = "Deletion Failed"]
  /\ UNCHANGED <<env, myCollection, store, req, started, ct, chat, ex, ci, up, sms, rem>>

\* deleteObject settles.
DeleteObjectReturns(ok) ==
  /\ rp.del.pc = "awaitDeleteObject"
  /\ rp' = IF ok
           THEN [rp EXCEPT !.objects = @ \ {rp.del.report.imageUrl},
                           !.toast = "Report Deleted", !.del.pc = "idle",
                           !.del.outcome = "Report Deleted"]
           ELSE [rp EXCEPT !.toast = "Deletion Failed", !.del.pc = "idle",
                           !.del.outcome = "Deletion Failed"]
  /\ UNCHANGED <<env, myCollection, store, req, started, ct, chat, ex, ci, up, sms, rem>>

\* ------------------------------------------------- chunk ids on their own
IdReportIds == {"doc1", "doc2", "doc", "doc1-chunk-0", "doc1-chunk-"}

CiIdle == [pc |-> "idle", first |-> [none |-> TRUE], second |-> [none |-> TRUE],
           firstIds |-> <<>>, secondIds |-> <<>>]

\* The ids indexReportFlow computes for a document.
IdsOf(doc) == ChunkIds(doc, chunkText(doc.text, DefaultChunkSize))

ComputeFirstIds ==
  /\ ci.pc = "first"
  /\ ci' = [ci EXCEPT !.pc = "second", !.firstIds = IdsOf(ci.first)]
  /\ UNCHANGED <<env, myCollection, store, req, started, ct, chat, ex, rp, up, sms, rem>>

ComputeSecondIds ==
  /\ ci.pc = "second"
  /\ ci' = [ci EXCEPT !.pc = "done", !.secondIds = IdsOf(ci.second)]
  /\ UNCHANGED <<env, myCollection, store, req, started, ct, chat, ex, rp, up, sms, rem>>

\* ------------------------------------------------------------ UserProvider
\* Browser sessions (tabs, devices) that each mount a UserProvider; they share
\* the authentication service and the profile document of the one user.
Sessions == {1, 2}
AuthUsers == {"userA", NULL}

\* The two versions of the provider: "use-user" reads and creates the profile
\* document in its callback, "part_005" only sets its state.
ProviderVersions == {"use-user", "part_005"}

NoProfile == [exists |-> FALSE, createdAt |-> 0]
EarlierProfile == [exists |-> TRUE, createdAt |-> 0]

\* useState(null), useState(true)
SessMounted == [user |-> NULL, loading |-> TRUE, events |-> 0, lastEvent |-> NULL]

UpClosed ==
  [version |-> "part_005", sess |-> [s \in Sessions |-> SessMounted], cbs |-> <<>>,
   profile |-> NoProfile, written |-> 0, overwritten |-> 0, clock |-> 1, events |-> 0]

RemoveAt(seq, i) == SubSeq(seq, 1, i - 1) \o SubSeq(seq, i + 1, Len(seq))

\* setLoading(false) at the end of a callback of session s.
CallbackEnds(u, s) == [u EXCEPT !.sess[s].loading = FALSE]

\* The callback of onAuthStateChanged up to its first await. The service
\* reports a change: a user after none, or none after a user.
AuthStateChanged(s, user) ==
  /\ up.events < MaxAuthEvents
  /\ up.sess[s].events > 0 => user # up.sess[s].lastEvent
  /\ LET u == [up EXCEPT !.events = @ + 1,
                         !.sess[s].events = @ + 1,
                         !.sess[s].lastEvent = user,
                         !.sess[s].user = user]
     IN up' = IF up.version = "use-user" /\ user # NULL
              THEN [u EXCEPT !.cbs = Append(@, [s |-> s, user |-> user, pc |-> "awaitGetDoc"])]
              ELSE CallbackEnds(u, s)
  /\ UNCHANGED <<env, myCollection, store, req, started, ct, chat, ex, rp, ci, sms, rem>>

\* !userDoc.exists()
ProfileMissing(profile) == ~profile.exists

\* getDoc settles in callback i; a rejection ends the callback there.
GetDocReturns(i, ok) ==
  /\ i \in 1..Len(up.cbs)
  /\ up.cbs[i].pc = "awaitGetDoc"
  /\ up' = IF ~ok THEN [up EXCEPT !.cbs = RemoveAt(@, i)]
           ELSE IF ProfileMissing(up.profile)
           THEN [up EXCEPT !.cbs[i].pc = "awaitSetDoc"]
           ELSE CallbackEnds([up EXCEPT !.cbs = RemoveAt(@, i)], up.cbs[i].s)
  /\ UNCHANGED <<env, myCollection, store, req, started, ct, chat, ex, rp, ci, sms, rem>>

\* setDoc settles in callback i: the document is written whole, with the
\* server's time as createdAt; a rejection ends the callback there.
SetDocReturns(i, ok) ==
  /\ i \in 1..Len(up.cbs)
  /\ up.cbs[i].pc = "awaitSetDoc"
  /\ up' = IF ~ok THEN [up EXCEPT !.cbs = RemoveAt(@, i)]
           ELSE CallbackEnds([up EXCEPT !.cbs = RemoveAt(@, i),
                                        !.profile = [exists |-> TRUE, createdAt |-> up.clock],
                                        !.written = @ + 1,
                                        !.overwritten = @ + (IF up.profile.exists THEN 1 ELSE 0),
                                        !.clock = @ + 1],
                             up.cbs[i].s)
  /\ UNCHANGED <<env, myCollection, store, req, started, ct, chat, ex, rp, ci, sms, rem>>

\* ------------------------------------------------------------ the SMS route
Phones == {"9876543210", "9123456780", "", UNDEFINED}
SmsMessages == {"Time to take your medication.", "Refill due tomorrow.", "", UNDEFINED}

\* The request bodies tried: JSON objects with or without the two fields, and
\* a body that is not JSON.
SmsRequests ==
  [json : {TRUE}, phone : Phones, message : SmsMessages]
  \cup {[json |-> FALSE, phone |-> UNDEFINED, message |-> UNDEFINED]}

\* What response.json() of the provider's response gives: the fields return
\* (a boolean, a string or absent), request_id and message.
ProviderData ==
  {[return |-> "true", request_id |-> "req-1", message |-> UNDEFINED],
   [return |-> "true", request_id |-> UNDEFINED, message |-> UNDEFINED],
   [return |-> "true", request_id |-> "", message |-> UNDEFINED],
   [return |-> "'true'", request_id |-> "req-1", message |-> UNDEFINED],
   [return |-> "false", request_id |-> UNDEFINED, message |-> "Invalid Numbers"],
   [return |-> "false", request_id |-> "req-1", message |-> UNDEFINED],
   [return |-> UNDEFINED, request_id |-> UNDEFINED, message |-> UNDEFINED]}

SmsIdle ==
  [keySet |-> TRUE, pc |-> "idle", request |-> [none |-> TRUE], fetches |-> 0,
   data |-> [none |-> TRUE], result |-> [kind |-> "none"], posts |-> 0]

\* NextResponse.json(body, { status }); the status is 200 when none is given.
JsonResponse(success, message, status) ==
  [kind |-> "response", status |-> status,
   body |-> [success |-> success, message |-> message]]

\* !phone || !message
FieldMissing(request) ==
  request.phone \in {"", UNDEFINED} \/ request.message \in {"", UNDEFINED}

\* data.return === true && data.request_id
ProviderAccepted(data) ==
  data.return = "true" /\ data.request_id \notin {"", UNDEFINED}

\* POST(request) up to its fetch: request.json() of a body that is not JSON
\* rejects, and the handler with it.
SmsPost(request) ==
  /\ sms.pc \in {"idle", "done"}
  /\ sms.posts < MaxPosts
  /\ LET r == [sms EXCEPT !.request = request, !.fetches = 0, !.data = [none |-> TRUE],
                          !.posts = @ + 1, !.pc = "done"]
     IN sms' =
          IF ~request.json THEN [r EXCEPT !.result = [kind |-> "throw"]]
          ELSE IF ~sms.keySet
          THEN [r EXCEPT !.result = JsonResponse(FALSE, "SMS API key is not configured.", 500)]
          ELSE IF FieldMissing(request)
          THEN [r EXCEPT !.result =
                  JsonResponse(FALSE, "Phone number and message are required.", 400)]
          ELSE [r EXCEPT !.pc = "awaitFetch", !.fetches = 1, !.result = [kind |-> "none"]]
  /\ UNCHANGED <<env, myCollection, store, req, started, ct, chat, ex, rp, ci, up, rem>>

\* The catch block of the route.
SmsCatch(r) ==
  [r EXCEPT !.pc = "done",
            !.result = JsonResponse(FALSE, "An internal server error occurred.", 500)]

\* fetch settles.
SmsFetchReturns(ok) ==
  /\ sms.pc = "awaitFetch"
  /\ sms' = IF ok THEN [sms EXCEPT !.pc = "awaitJson"] ELSE SmsCatch(sms)
  /\ UNCHANGED <<env, myCollection, store, req, started, ct, chat, ex, rp, ci, up, rem>>

\* response.json() settles: with the provider's data, or not at all when the
\* provider's body is not JSON.
SmsJsonReturns(ok, data) ==
  /\ sms.pc = "awaitJson"
  /\ sms' =
       IF ~ok THEN SmsCatch(sms)
       ELSE IF ProviderAccepted(data)
       THEN [sms EXCEPT !.pc = "done", !.data = data,
                        !.result = JsonResponse(TRUE, "SMS sent successfully.", 200)]
       ELSE [sms EXCEPT !.pc = "done", !.data = data,
                        !.result = JsonResponse(FALSE,
                                                IF data.message \in {"", UNDEFINED}
                                                THEN "Failed to send SMS." ELSE data.message,
                                                500)]
  /\ UNCHANGED <<env, myCollection, store, req, started, ct, chat, ex, rp, ci, up, rem>>

\* -------------------------------------------------------- the reminders page
\* The two versions of the page in the file; their forms differ in one field.
ReminderVersions == {"first", "second"}

\* Values that passed the form's schema.
FormValues(version) ==
  IF version = "first"
  THEN [name : {"John Doe"}, email : {"john@example.com"},
        message : {"Time to take your morning medication.", "Drink water."},
        date : {"2026-01-05"}, time : {"09:00"}]
  ELSE [email : {"john@example.com"}, medicine : {"Paracetamol"},
        date : {"2026-01-05"}, time : {"09:00"},
        message : {"Take it with food.", "Drink water."}]

RemClosed ==
  [version |-> "first", pc |-> "closed", reminders |-> <<>>, isSending |-> FALSE,
   values |-> [none |-> TRUE], toast |-> "none", clock |-> 0, submits |-> 0,
   lastSend |-> "none", clicked |-> 0]

\* (mutant) a clock that stands still.
DateNowFrozen(clock) == 0

\* Date.now()
DateNow(clock) == clock

\* { ...values, id: Date.now() }
NewReminder(values, id) ==
  [k \in DOMAIN values \cup {"id"} |-> IF k = "id" THEN id ELSE values[k]]

\* onSubmit(values) up to its await; the form takes no submission while
\* isSending.
RemOnSubmit(values) ==
  /\ rem.pc = "idle" /\ ~rem.isSending
  /\ rem.submits < MaxSubmits
  /\ values \in FormValues(rem.version)
  /\ rem' = [rem EXCEPT !.pc = "awaitSend", !.isSending = TRUE, !.values = values,
                        !.submits = @ + 1]
  /\ UNCHANGED <<env, myCollection, store, req, started, ct, chat, ex, rp, ci, up, sms>>

\* emailjs.send settles, elapsed milliseconds after the submission: the try
\* block's rest or the catch block, then the finally block.
RemSendReturns(ok, elapsed) ==
  /\ rem.pc = "awaitSend"
  /\ rem' = IF ok
            THEN [rem EXCEPT !.pc = "idle", !.clock = @ + elapsed,
                    !.reminders = <<NewReminder(rem.values, DateNow(rem.clock + elapsed))>> \o @,
                    !.toast = "Reminder Sent!", !.lastSend = "ok", !.isSending = FALSE]
            ELSE [rem EXCEPT !.pc = "idle", !.clock = @ + elapsed,
                    !.toast = "Error Sending Reminder", !.lastSend = "failed",
                    !.isSending = FALSE]
  /\ UNCHANGED <<env, myCollection, store, req, started, ct, chat, ex, rp, ci, up, sms>>

\* onClick of the delete button of the k-th row of the history.
RemDelete(k) ==
  /\ rem.pc # "closed"
  /\ k \in 1..Len(rem.reminders)
  /\ rem' = [rem EXCEPT !.reminders = SelectSeq(@, LAMBDA r : r.id # rem.reminders[k].id),
                        !.toast = "Reminder Deleted", !.clicked = k]
  /\ UNCHANGED <<env, myCollection, store, req, started, ct, chat, ex, rp, ci, up, sms>>

\* chunkText(text, chunkSize) called on its own.
ChunkTextCall ==
  /\ ct.pc = "call"
  /\ ct' = [ct EXCEPT !.pc = "done", !.chunks = chunkText(ct.text, ct.chunkSize)]
  /\ UNCHANGED <<env, myCollection, store, req, started, chat, ex, rp, ci, up, sms, rem>>

\* ------------------------------------------------------------ specifications
IndexInputs == [text : Texts, reportId : ReportIds, userId : Users]
AnswerInputs == [question : Questions, userId : Users]

ChatClosed ==
  [version |-> "page", user |-> "userA", reports |-> NoData, messages |-> <<>>, input |-> "",
   isLoading |-> FALSE, toast |-> "none", slot |-> 0]

CtIdle == [pc |-> "idle", text |-> "", chunkSize |-> DefaultChunkSize, chunks |-> <<>>]

Init ==
  /\ env \in [COHERE_API_KEY : BOOLEAN, CHROMA_CREDENTIALS : BOOLEAN]
  /\ myCollection = [m \in Modules |-> NULL]
  /\ store \in InitialStores
  /\ req = [p \in Procs |-> IdleReq]
  /\ started = 0
  /\ ct = CtIdle
  /\ chat = ChatClosed
  /\ ex = ExIdle("fallback")
  /\ rp = RpClosed
  /\ ci = CiIdle
  /\ up = UpClosed
  /\ sms = SmsIdle
  /\ rem = RemClosed

Next ==
  \/ \E p \in Procs, input \in IndexInputs : IndexReport(p, input)
  \/ \E p \in Procs, input \in AnswerInputs : AnswerQuestionsAboutReport(p, input)
  \/ \E p \in Procs, ok \in BOOLEAN : GetOrCreateCollectionReturns(p, ok)
  \/ \E p \in Procs, ok \in BOOLEAN : AddReturns(p, ok)
  \/ \E p \in Procs, ok \in BOOLEAN, ranking \in {"forward", "backward"}, n \in 0..NResults + 1 :
       QueryReturns(p, ok, ranking, n)
  \/ \E p \in Procs, ok \in BOOLEAN, text \in ModelTexts : GenerateReturns(p, ok, text)

Spec == Init /\ [][Next]_vars

InitChunk ==
  /\ env = [COHERE_API_KEY |-> TRUE, CHROMA_CREDENTIALS |-> TRUE]
  /\ myCollection = [m \in Modules |-> NULL]
  /\ store = <<>>
  /\ req = [p \in Procs |-> IdleReq]
  /\ started = 0
  /\ ct \in [pc : {"call"}, text : StringsUpTo(MaxTextLen), chunkSize : 1..MaxChunkSize,
             chunks : {<<>>}]
  /\ chat = ChatClosed
  /\ ex = ExIdle("fallback")
  /\ rp = RpClosed
  /\ ci = CiIdle
  /\ up = UpClosed
  /\ sms = SmsIdle
  /\ rem = RemClosed

NextChunk == ChunkTextCall

SpecChunk == InitChunk /\ [][NextChunk]_vars

\* The chat page open in a browser, beside clients that call the server action
\* with the schema's fields.
InitChat ==
  /\ env = [COHERE_API_KEY |-> TRUE, CHROMA_CREDENTIALS |-> TRUE]
  /\ myCollection = [m \in Modules |-> NULL]
  /\ store \in InitialStores \ {<<>>}
  /\ req = [p \in Procs |-> IdleReq]
  /\ started = 0
  /\ ct = CtIdle
  /\ chat \in [version : {"page", "part_003"}, user : {"userB"}, reports : {NoData},
                messages : {<<>>}, input : {""}, isLoading : {FALSE}, toast : {"none"},
                slot : {0}]
  /\ ex = ExIdle("fallback")
  /\ rp = RpClosed
  /\ ci = CiIdle
  /\ up = UpClosed
  /\ sms = SmsIdle
  /\ rem = RemClosed

NextChat ==
  \/ \E reports \in ReportLists : ChatReportsSnapshot(reports)
  \/ \E value \in ChatInputs : ChatSetInput(value)
  \/ \E p \in Procs : ChatHandleSendMessage(p)
  \/ \E p \in Procs : ChatAnswerSettles(p)
  \/ \E p \in Procs, input \in AnswerInputs : AnswerQuestionsAboutReport(p, input)
  \/ \E p \in Procs, ok \in BOOLEAN : GetOrCreateCollectionReturns(p, ok)
  \/ \E p \in Procs, ok \in BOOLEAN, ranking \in {"forward", "backward"}, n \in 0..NResults + 1 :
       QueryReturns(p, ok, ranking, n)
  \/ \E p \in Procs, ok \in BOOLEAN, text \in ModelTexts : GenerateReturns(p, ok, text)

SpecChat == InitChat /\ [][NextChat]_vars

\* The extraction flow called as a server action, in either version.
InitExtract ==
  /\ env = [COHERE_API_KEY |-> TRUE, CHROMA_CREDENTIALS |-> TRUE]
  /\ myCollection = [m \in Modules |-> NULL]
  /\ store = <<>>
  /\ req = [p \in Procs |-> IdleReq]
  /\ started = 0
  /\ ct = CtIdle
  /\ chat = ChatClosed
  /\ ex \in {ExIdle(v) : v \in ExtractVariants}
  /\ rp = RpClosed
  /\ ci = CiIdle
  /\ up = UpClosed
  /\ sms = SmsIdle
  /\ rem = RemClosed

NextExtract ==
  \/ \E input \in ExtractInputs : ExtractTextFromDocument(input)
  \/ \E ok \in BOOLEAN, raw \in RawResponses : ExtractGenerateReturns(ok, raw)
  \/ \E ok \in BOOLEAN, text \in StructuredOutputs : ExtractPromptReturns(ok, text)

SpecExtract == InitExtract /\ [][NextExtract]_vars

\* The reports page open in a browser with a signed-in user.
InitUpload ==
  /\ env = [COHERE_API_KEY |-> TRUE, CHROMA_CREDENTIALS |-> TRUE]
  /\ myCollection = [m \in Modules |-> NULL]
  /\ store = <<>>
  /\ req = [p \in Procs |-> IdleReq]
  /\ started = 0
  /\ ct = CtIdle
  /\ chat = ChatClosed
  /\ ex \in {ExIdle(v) : v \in ExtractVariants}
  /\ rp \in {RpOpen(<<>>), RpOpen(<<EarlierReport>>)}
  /\ ci = CiIdle
  /\ up = UpClosed
  /\ sms = SmsIdle
  /\ rem = RemClosed

NextUpload ==
  \/ \E file \in UploadFiles : HandleFileChange(file)
  \/ ReaderOnError
  \/ ReaderOnLoad
  \/ \E ok \in BOOLEAN, raw \in RawResponses : ExtractGenerateReturns(ok, raw)
  \/ \E ok \in BOOLEAN, text \in StructuredOutputs : ExtractPromptReturns(ok, text)
  \/ OnLoadExtractSettles
  \/ \E ok \in BOOLEAN : UploadBytesReturns(ok)
  \/ \E ok \in BOOLEAN : GetDownloadURLReturns(ok)
  \/ \E ok \in BOOLEAN : AddDocReturns(ok)
  \/ \E k \in 1..MaxUploads + 1, isConfirmed \in BOOLEAN : HandleDelete(k, isConfirmed)
  \/ \E ok \in BOOLEAN : DeleteDocReturns(ok)
  \/ \E ok \in BOOLEAN : DeleteObjectReturns(ok)

SpecUpload == InitUpload /\ [][NextUpload]_vars

\* Chunk ids of two documents, computed on their own.
IdTexts == {TextOfLen(n) : n \in {0, 1, DefaultChunkSize + 1, MaxChunks * DefaultChunkSize + 1}}
IdDocs == [reportId : IdReportIds, text : IdTexts]

InitIds ==
  /\ env = [COHERE_API_KEY |-> TRUE, CHROMA_CREDENTIALS |-> TRUE]
  /\ myCollection = [m \in Modules |-> NULL]
  /\ store = <<>>
  /\ req = [p \in Procs |-> IdleReq]
  /\ started = 0
  /\ ct = CtIdle
  /\ chat = ChatClosed
  /\ ex = ExIdle("fallback")
  /\ rp = RpClosed
  /\ ci \in [pc : {"first"}, first : IdDocs, second : IdDocs,
              firstIds : {<<>>}, secondIds : {<<>>}]
  /\ up = UpClosed
  /\ sms = SmsIdle
  /\ rem = RemClosed

NextIds == ComputeFirstIds \/ ComputeSecondIds

SpecIds == InitIds /\ [][NextIds]_vars

\* Ingestions and queries beside a reports page on which reports are deleted.
InitLifecycle ==
  /\ env = [COHERE_API_KEY |-> TRUE, CHROMA_CREDENTIALS |-> TRUE]
  /\ myCollection = [m \in Modules |-> NULL]
  /\ store \in InitialStores
  /\ req = [p \in Procs |-> IdleReq]
  /\ started = 0
  /\ ct = CtIdle
  /\ chat = ChatClosed
  /\ ex = ExIdle("fallback")
  /\ rp = RpOpen(<<EarlierReport>>)
  /\ ci = CiIdle
  /\ up = UpClosed
  /\ sms = SmsIdle
  /\ rem = RemClosed

LifecycleIndexInputs == [text : {TextOfLen(1)}, reportId : ReportIds, userId : Users]

NextLifecycle ==
  \/ \E p \in Procs, input \in LifecycleIndexInputs : IndexReport(p, input)
  \/ \E p \in Procs, input \in AnswerInputs : AnswerQuestionsAboutReport(p, input)
  \/ \E p \in Procs, ok \in BOOLEAN : GetOrCreateCollectionReturns(p, ok)
  \/ \E p \in Procs, ok \in BOOLEAN : AddReturns(p, ok)
  \/ \E p \in Procs, ok \in BOOLEAN, n \in 0..NResults : QueryReturns(p, ok, "forward", n)
  \/ \E p \in Procs, ok \in BOOLEAN, text \in ModelTexts : GenerateReturns(p, ok, text)
  \/ \E k \in 1..MaxUploads + 1, isConfirmed \in BOOLEAN : HandleDelete(k, isConfirmed)
  \/ \E ok \in BOOLEAN : DeleteDocReturns(ok)
  \/ \E ok \in BOOLEAN : DeleteObjectReturns(ok)

SpecLifecycle == InitLifecycle /\ [][NextLifecycle]_vars

\* UserProvider mounted in two sessions, before the first auth-state event.
InitUser ==
  /\ env = [COHERE_API_KEY |-> TRUE, CHROMA_CREDENTIALS |-> TRUE]
  /\ myCollection = [m \in Modules |-> NULL]
  /\ store = <<>>
  /\ req = [p \in Procs |-> IdleReq]
  /\ started = 0
  /\ ct = CtIdle
  /\ chat = ChatClosed
  /\ ex = ExIdle("fallback")
  /\ rp = RpClosed
  /\ ci = CiIdle
  /\ up \in {[UpClosed EXCEPT !.version = v, !.profile = d] :
               v \in ProviderVersions, d \in {NoProfile, EarlierProfile}}
  /\ sms = SmsIdle
  /\ rem = RemClosed

NextUser ==
  \/ \E s \in Sessions, user \in AuthUsers : AuthStateChanged(s, user)
  \/ \E i \in 1..MaxAuthEvents, ok \in BOOLEAN : GetDocReturns(i, ok)
  \/ \E i \in 1..MaxAuthEvents, ok \in BOOLEAN : SetDocReturns(i, ok)

SpecUser == InitUser /\ [][NextUser]_vars

\* The SMS route of a server with or without the provider's key.
InitSms ==
  /\ env = [COHERE_API_KEY |-> TRUE, CHROMA_CREDENTIALS |-> TRUE]
  /\ myCollection = [m \in Modules |-> NULL]
  /\ store = <<>>
  /\ req = [p \in Procs |-> IdleReq]
  /\ started = 0
  /\ ct = CtIdle
  /\ chat = ChatClosed
  /\ ex = ExIdle("fallback")
  /\ rp = RpClosed
  /\ ci = CiIdle
  /\ up = UpClosed
  /\ sms \in {[SmsIdle EXCEPT !.keySet = k] : k \in BOOLEAN}
  /\ rem = RemClosed

NextSms ==
  \/ \E request \in SmsRequests : SmsPost(request)
  \/ \E ok \in BOOLEAN : SmsFetchReturns(ok)
  \/ \E ok \in BOOLEAN, data \in ProviderData : SmsJsonReturns(ok, data)

SpecSms == InitSms /\ [][NextSms]_vars

\* The reminders page open in a browser, in either version.
InitReminders ==
  /\ env = [COHERE_API_KEY |-> TRUE, CHROMA_CREDENTIALS |-> TRUE]
  /\ myCollection = [m \in Modules |-> NULL]
  /\ store = <<>>
  /\ req = [p \in Procs |-> IdleReq]
  /\ started = 0
  /\ ct = CtIdle
  /\ chat = ChatClosed
  /\ ex = ExIdle("fallback")
  /\ rp = RpClosed
  /\ ci = CiIdle
  /\ up = UpClosed
  /\ sms = SmsIdle
  /\ rem \in {[RemClosed EXCEPT !.version = v, !.pc = "idle"] : v \in ReminderVersions}

NextReminders ==
  \/ \E values \in FormValues("first") \cup FormValues("second") : RemOnSubmit(values)
  \/ \E ok \in BOOLEAN, elapsed \in 1..2 : RemSendReturns(ok, elapsed)
  \/ \E k \in 1..MaxSubmits : RemDelete(k)

SpecReminders == InitReminders /\ [][NextReminders]_vars

\* ------------------------------------------------------------------ claims
RECURSIVE ConcatAll(_)
ConcatAll(seq) == IF Len(seq) = 0 THEN "" ELSE seq[1] \o ConcatAll(Tail(seq))

CeilDiv(a, b) == (a + b - 1) \div b

OpIndices(r, op) == {k \in 1..Len(r.calls) : r.calls[k].op = op}
HasCall(r, op) == OpIndices(r, op) # {}
CallOf(r, op) == r.calls[CHOOSE k \in OpIndices(r, op) : TRUE]
FailedCall(r) == \E k \in 1..Len(r.calls) : r.calls[k].status = "failed"
DocsOf(records) == [k \in 1..Len(records) |-> records[k].document]

\* C1: for every text T and chunk size S > 0, the chunks of chunkText(T, S)
\* concatenate in order to T, each is at most S long, and there are
\* ceil(len(T)/S) of them (none for the empty text).
C1_ChunkTextPartition ==
  ct.pc = "done" =>
    /\ ConcatAll(ct.chunks) = ct.text
    /\ \A k \in 1..Len(ct.chunks) : Len(ct.chunks[k]) <= ct.chunkSize
    /\ Len(ct.chunks) = CeilDiv(Len(ct.text), ct.chunkSize)
    /\ (ct.text = "" => Len(ct.chunks) = 0)

C1_Witness ==
  /\ ct.pc = "done"
  /\ Len(ct.chunks) >= 2
  /\ Len(ct.chunks[Len(ct.chunks)]) < ct.chunkSize

\* C2: the records a query of owner A retrieved all carry A as stored owner
\* metadata and were all written by A's ingestions; every stored record holds
\* its writer under the userId key, in the one collection both flows use.
C2_OwnerIsolation ==
  /\ \A p \in Procs :
       req[p].kind = "answer" =>
         \A k \in 1..Len(req[p].retrieved) :
           /\ req[p].retrieved[k].metadata.userId = req[p].input.userId
           /\ req[p].retrieved[k].by = req[p].input.userId
  /\ \A k \in 1..Len(store) :
       store[k].metadata.userId = store[k].by /\ store[k].coll = CollectionName

C2_Witness ==
  \E p \in Procs :
    /\ req[p].kind = "answer" /\ req[p].input.userId = "userA"
    /\ Len(req[p].retrieved) >= 1
    /\ \E k \in 1..Len(store) : store[k].by = "userB"

\* C3: a query whose vector search returned zero chunks returns exactly the
\* fixed message and never calls the generation model.
C3_EmptyRetrievalShortCircuits ==
  \A p \in Procs :
    (/\ req[p].kind = "answer"
     /\ HasCall(req[p], "query") /\ CallOf(req[p], "query").status = "ok"
     /\ Len(req[p].retrieved) = 0)
    => /\ req[p].pc = "done"
       /\ req[p].result = [kind |-> "return", value |-> [answer |-> "I couldn't find any relevant information in your documents to answer that question. Please try uploading more documents or rephrasing your question."]]
       /\ ~HasCall(req[p], "generate")

C3_Witness ==
  \E p \in Procs :
    /\ req[p].kind = "answer" /\ req[p].pc = "done"
    /\ HasCall(req[p], "query") /\ CallOf(req[p], "query").status = "ok"
    /\ Len(req[p].retrieved) = 0

\* C4: ingestion of empty text returns {success: true} and makes no add call
\* (no outbound call at all).
C4_EmptyTextNoWrite ==
  \A p \in Procs :
    (req[p].kind = "index" /\ req[p].input.text = "")
    => /\ req[p].pc = "done"
       /\ req[p].result = [kind |-> "return", value |-> [success |-> TRUE]]
       /\ ~HasCall(req[p], "add")
       /\ Len(req[p].calls) = 0

C4_Witness ==
  \E p \in Procs : req[p].kind = "index" /\ req[p].input.text = "" /\ req[p].pc = "done"

\* C5: an ingestion of document D that produces N chunks submits exactly the
\* ids D-chunk-0 .. D-chunk-(N-1) in order, the i-th id with the i-th chunk of
\* the text, all ids distinct.
C5_ChunkIds ==
  \A p \in Procs :
    (req[p].kind = "index" /\ HasCall(req[p], "add"))
    => LET args == CallOf(req[p], "add").args
           text == req[p].input.text
           N == CeilDiv(Len(text), 1000)
       IN /\ Len(args.ids) = N /\ Len(args.documents) = N
          /\ \A k \in 1..N :
               /\ args.ids[k] = req[p].input.reportId \o "-chunk-" \o ToString(k - 1)
               /\ args.documents[k] = SubSeq(text, (k - 1) * 1000 + 1, Min(k * 1000, Len(text)))
          /\ \A j, k \in 1..N : j # k => args.ids[j] # args.ids[k]

C5_Witness ==
  \E p \in Procs :
    /\ req[p].kind = "index" /\ HasCall(req[p], "add")
    /\ Len(CallOf(req[p], "add").args.ids) >= 3

RECURSIVE C6_Offset(_, _)
\* Where the k-th chunk starts in a context that puts one delimiter between
\* consecutive chunks and nothing else.
C6_Offset(docs, k) ==
  IF k = 1 THEN 0 ELSE C6_Offset(docs, k - 1) + Len(docs[k - 1]) + Len("\n\n---\n\n")

C6_ContextLayout(context, docs) ==
  LET K == Len(docs)
  IN /\ Len(context) = C6_Offset(docs, K) + Len(docs[K])
     /\ \A k \in 1..K :
          SubSeq(context, C6_Offset(docs, k) + 1, C6_Offset(docs, k) + Len(docs[k])) = docs[k]
     /\ \A k \in 1..K - 1 :
          SubSeq(context, C6_Offset(docs, k) + Len(docs[k]) + 1, C6_Offset(docs, k + 1))
            = "\n\n---\n\n"

\* C6: when the search returned K chunks, 1 <= K <= 5, the prompt sent to the
\* generation model is the fixed head, the K chunk texts in the order returned
\* with the delimiter between consecutive ones and nowhere else, the fixed
\* middle, the question unchanged, and the fixed tail.
C6_PromptContext ==
  \A p \in Procs :
    (req[p].kind = "answer" /\ Len(req[p].retrieved) >= 1)
    => /\ Len(req[p].retrieved) <= 5
       /\ HasCall(req[p], "generate")
       /\ LET prompt == CallOf(req[p], "generate").args.prompt
              docs == DocsOf(req[p].retrieved)
              question == req[p].input.question
              ctxLen == Len(prompt) - Len(PromptHead) - Len(PromptMid) - Len(question)
                          - Len(PromptTail)
              ctxEnd == Len(PromptHead) + ctxLen
          IN /\ ctxLen >= 0
             /\ SubSeq(prompt, 1, Len(PromptHead)) = PromptHead
             /\ C6_ContextLayout(SubSeq(prompt, Len(PromptHead) + 1, ctxEnd), docs)
             /\ SubSeq(prompt, ctxEnd + 1, ctxEnd + Len(PromptMid)) = PromptMid
             /\ SubSeq(prompt, ctxEnd + Len(PromptMid) + 1,
                       ctxEnd + Len(PromptMid) + Len(question)) = question
             /\ SubSeq(prompt, ctxEnd + Len(PromptMid) + Len(question) + 1, Len(prompt))
                  = PromptTail

C6_Witness ==
  \E p \in Procs :
    /\ req[p].kind = "answer" /\ Len(req[p].retrieved) = 5
    /\ HasCall(req[p], "generate")
    /\ req[p].retrieved[1].id # "doc1-chunk-0" /\ req[p].retrieved[1].id # "doc2-chunk-0"

\* C7: when obtaining the collection or the add call fails during ingestion of
\* non-empty text, the flow returns {success: false}; no ingestion ends in a
\* thrown error, and add is called at most once.
C7_IngestionFailureIsFalse ==
  \A p \in Procs :
    (req[p].kind = "index" /\ req[p].input.text # "")
    => /\ req[p].result.kind # "throw"
       /\ (FailedCall(req[p]) \/ req[p].caught # "none")
            => /\ req[p].pc = "done"
               /\ req[p].result = [kind |-> "return", value |-> [success |-> FALSE]]
       /\ Cardinality(OpIndices(req[p], "add")) <= 1
       /\ (req[p].pc = "done" /\ req[p].result.value.success)
            => (HasCall(req[p], "add") /\ CallOf(req[p], "add").status = "ok")

C7_Witness ==
  /\ \E p \in Procs :
       /\ req[p].kind = "index" /\ req[p].pc = "done"
       /\ HasCall(req[p], "add") /\ CallOf(req[p], "add").status = "failed"
  /\ \E p \in Procs :
       /\ req[p].kind = "index" /\ req[p].pc = "done"
       /\ HasCall(req[p], "getOrCreateCollection")
       /\ CallOf(req[p], "getOrCreateCollection").status = "failed"

\* C8 (as claimed): the handle is initialised at most once: whatever the
\* interleaving of requests, the requests of one module execute
\* getOrCreateCollection at most once between them.
C8_CreatedAtMostOnce ==
  (env.COHERE_API_KEY /\ env.CHROMA_CREDENTIALS) =>
    \A m \in Modules :
      Cardinality({p \in Procs : req[p].kind = m /\ HasCall(req[p], "getOrCreateCollection")}) <= 1

\* C8 (amended): a request executes getOrCreateCollection only while the
\* handle of its module is unset, and a handle once set is never cleared or
\* replaced by another value: requests that start after the handle is set
\* reuse it.
C8_CreatedOnlyWhileUnset ==
  [][/\ \A p \in Procs :
          (req'[p].pc = "awaitCreate" /\ req[p].pc # "awaitCreate")
            => myCollection[req'[p].kind] = NULL
     /\ \A m \in Modules :
          myCollection[m] # NULL => myCollection'[m] = myCollection[m]]_vars

C8_Witness ==
  \E p, q \in Procs :
    /\ p # q
    /\ req[q].kind = "index" /\ HasCall(req[q], "getOrCreateCollection")
    /\ req[p].kind = "index" /\ req[p].pc = "awaitAdd"
    /\ ~HasCall(req[p], "getOrCreateCollection")

CredentialAbsent == ~env.COHERE_API_KEY \/ ~env.CHROMA_CREDENTIALS

\* C9 (as claimed): with a required credential absent, every finished request
\* ended in an error thrown to the caller, with no add or query call made.
C9_ConfigErrorThrown ==
  CredentialAbsent =>
    \A p \in Procs :
      req[p].pc = "done" =>
        /\ req[p].result.kind = "throw"
        /\ ~HasCall(req[p], "add") /\ ~HasCall(req[p], "query")

\* C9 (amended): with the embedding-provider key absent, a query request ends
\* in the configuration error thrown to the caller, an ingestion of non-empty
\* text ends with that error caught and {success: false} returned, and no
\* request makes any outbound call (no collection creation, add or query).
C9_MissingKeySurfaced ==
  ~env.COHERE_API_KEY =>
    \A p \in Procs :
      /\ req[p].pc \in {"idle", "done"}
      /\ Len(req[p].calls) = 0
      /\ req[p].kind = "answer"
           => req[p].result = [kind |-> "throw",
                               error |-> "COHERE_API_KEY environment variable not set."]
      /\ (req[p].kind = "index" /\ req[p].input.text # "")
           => /\ req[p].result = [kind |-> "return", value |-> [success |-> FALSE]]
              /\ req[p].caught = "COHERE_API_KEY environment variable not set."

C9_Witness ==
  /\ ~env.COHERE_API_KEY
  /\ \E p, q \in Procs :
       /\ req[p].kind = "answer" /\ req[p].pc = "done"
       /\ req[q].kind = "index" /\ req[q].pc = "done" /\ req[q].input.text # ""

\* C10 (as claimed): every query carries the asking user's identifier: the
\* input of every question submitted to the query flow, those sent from the
\* chat page included, holds a user id, and once the request has finished
\* without a failure of an external call it has searched with that id as filter.
C10_EveryQueryCarriesOwner ==
  \A p \in Procs :
    req[p].kind = "answer" =>
      /\ req[p].input.userId \in Users
      /\ req[p].caller = "chat" => req[p].input.userId = chat.user
      /\ \A k \in OpIndices(req[p], "query") :
           req[p].calls[k].args.where = [userId |-> req[p].input.userId]

\* C12 (as claimed): one ingestion request or one query request performs at
\* most two outbound network calls.
C12_AtMostTwoCalls ==
  \A p \in Procs : Len(req[p].calls) <= 2

\* C12 (amended): the calls of a request are made strictly one after another:
\* a call is issued only when every earlier call of the request has settled.
\* A request makes at most two calls on top of getOrCreateCollection, which it
\* makes at most once, as its first call, and only when it found the handle
\* unset: an ingestion makes at most two calls in all, a query at most three
\* (getOrCreateCollection, query, generate).
C12_SequentialChain ==
  \A p \in Procs :
    LET r == req[p]
        creates == OpIndices(r, "getOrCreateCollection")
    IN /\ \A k \in 1..Len(r.calls) :
            r.calls[k].status = "pending" => k = Len(r.calls) /\ r.pc # "done"
       /\ creates \subseteq {1}
       /\ Len(r.calls) - Cardinality(creates) <= 2
       /\ r.kind = "index" => Len(r.calls) <= 2
       /\ r.kind = "answer" => Len(r.calls) <= 3

C12_Witness ==
  \E p \in Procs :
    /\ req[p].kind = "answer" /\ req[p].pc = "done"
    /\ Len(req[p].calls) = 3
    /\ \A k \in 1..3 : req[p].calls[k].status = "ok"

\* C13: an ingestion of non-empty text that succeeded made exactly one write
\* to the vector collection, and that write resolved and carried the full
\* batch: N ids, N chunk texts and N metadata records for the N chunks of the
\* text, the k-th id, text and metadata belonging to the k-th chunk, every
\* metadata record holding the request's owner id and document id.
C13_OneFullBatchWrite ==
  \A p \in Procs :
    LET r == req[p]
        text == r.input.text
        N == CeilDiv(Len(text), DefaultChunkSize)
    IN (/\ r.kind = "index" /\ r.pc = "done"
        /\ r.result = [kind |-> "return", value |-> [success |-> TRUE]]
        /\ text # "")
       => /\ Cardinality(OpIndices(r, "add")) = 1
          /\ \A c \in OpIndices(r, "add") :
               LET a == r.calls[c].args
               IN /\ r.calls[c].status = "ok"
                  /\ N >= 1
                  /\ Len(a.ids) = N /\ Len(a.documents) = N /\ Len(a.metadatas) = N
                  /\ \A k \in 1..N :
                       /\ a.ids[k] = r.input.reportId \o "-chunk-" \o ToString(k - 1)
                       /\ a.documents[k] =
                            SubSeq(text, (k - 1) * DefaultChunkSize + 1,
                                   Min(k * DefaultChunkSize, Len(text)))
                       /\ a.metadatas[k] = [userId |-> r.input.userId,
                                            reportId |-> r.input.reportId]

C13_Witness ==
  \E p \in Procs :
    /\ req[p].kind = "index" /\ req[p].pc = "done"
    /\ req[p].result = [kind |-> "return", value |-> [success |-> TRUE]]
    /\ Len(req[p].input.text) > DefaultChunkSize
    /\ HasCall(req[p], "add")
    /\ Len(CallOf(req[p], "add").args.ids) = MaxChunks + 1

\* C15: a query that retrieved at least one chunk and whose generation call
\* succeeded returns, as its answer, exactly the text the generation model
\* gave.
C15_AnswerIsModelText ==
  \A p \in Procs :
    LET r == req[p]
    IN (/\ r.kind = "answer" /\ r.pc = "done"
        /\ Len(r.retrieved) >= 1
        /\ HasCall(r, "generate") /\ CallOf(r, "generate").status = "ok")
       => /\ CallOf(r, "generate").response \in ModelTexts
          /\ r.result = [kind |-> "return",
                         value |-> [answer |-> CallOf(r, "generate").response]]

C15_Witness ==
  \E p \in Procs :
    /\ req[p].kind = "answer" /\ req[p].pc = "done"
    /\ Len(req[p].retrieved) >= 1
    /\ HasCall(req[p], "generate") /\ CallOf(req[p], "generate").status = "ok"
    /\ CallOf(req[p], "generate").response = "Your hemoglobin is 13.5 g/dL."

\* C16: a query whose vector search or generation call failed ends as a
\* failure of the request with no answer value; the failed call was made once
\* (no retry), and after a failed vector search no generation call was made.
C16_FailurePropagates ==
  \A p \in Procs :
    LET r == req[p]
    IN \A k \in 1..Len(r.calls) :
         (/\ r.kind = "answer"
          /\ r.calls[k].op \in {"query", "generate"}
          /\ r.calls[k].status = "failed")
         => /\ r.pc = "done"
            /\ r.result.kind = "throw"
            /\ k = Len(r.calls)
            /\ Cardinality(OpIndices(r, r.calls[k].op)) = 1
            /\ r.calls[k].op = "query" => ~HasCall(r, "generate")

C16_Witness ==
  \E p, q \in Procs :
    /\ req[p].kind = "answer" /\ HasCall(req[p], "query")
    /\ CallOf(req[p], "query").status = "failed"
    /\ req[q].kind = "answer" /\ HasCall(req[q], "generate")
    /\ CallOf(req[q], "generate").status = "failed"

\* C17: every vector search of the query flow asks for at most 5 results, and
\* the prompt handed to the generation model holds the texts of at most five
\* chunks: those the search returned, in the order it returned them.
C17_AtMostFiveInOrder ==
  \A p \in Procs :
    LET r == req[p]
    IN r.kind = "answer" =>
         /\ \A k \in OpIndices(r, "query") : r.calls[k].args.nResults <= 5
         /\ HasCall(r, "generate") =>
              LET returned == CallOf(r, "query").response
              IN /\ Len(returned) \in 1..5
                 /\ r.retrieved = returned
                 /\ CallOf(r, "generate").args.prompt =
                      PromptHead
                      \o Join([k \in 1..Len(returned) |-> returned[k].document],
                              "\n\n---\n\n")
                      \o PromptMid \o r.input.question \o PromptTail

\* A search over six matching chunks that returned five, last chunk first.
C17_Witness ==
  \E p \in Procs :
    /\ req[p].kind = "answer" /\ HasCall(req[p], "generate")
    /\ Len(CallOf(req[p], "query").response) = 5
    /\ CallOf(req[p], "query").response[1].id = "doc1-chunk-" \o ToString(MaxChunks)
    /\ Cardinality({k \in 1..Len(store) :
                      store[k].metadata.userId = req[p].input.userId}) > 5

\* C19: chunk ids are a deterministic, injective function of (document id,
\* chunk index). Of two ingestions: the same document id and text give the
\* same ids; the same document id gives the same id at every index both have;
\* the ids of one ingestion are pairwise different; and with different
\* document ids no id of the one equals an id of the other.
C19_IdsDeterministicInjective ==
  ci.pc = "done" =>
    /\ ci.first = ci.second => ci.firstIds = ci.secondIds
    /\ ci.first.reportId = ci.second.reportId =>
         \A k \in 1..Min(Len(ci.firstIds), Len(ci.secondIds)) :
           ci.firstIds[k] = ci.secondIds[k]
    /\ \A j, k \in 1..Len(ci.firstIds) : j # k => ci.firstIds[j] # ci.firstIds[k]
    /\ ci.first.reportId # ci.second.reportId =>
         \A j \in 1..Len(ci.firstIds), k \in 1..Len(ci.secondIds) :
           ci.firstIds[j] # ci.secondIds[k]

\* Two documents of several chunks, the id of one being a chunk id of the other.
C19_Witness ==
  /\ ci.pc = "done"
  /\ ci.first.reportId = "doc1" /\ ci.second.reportId = "doc1-chunk-0"
  /\ Len(ci.firstIds) > 1 /\ Len(ci.secondIds) > 1
  /\ ci.firstIds[1] = ci.second.reportId

\* The raw responses tried that are a JSON object with a string field text,
\* each with the value of that field.
C11_TextFieldOf ==
  [raw \in {"{\"text\": \"Hemoglobin 13.5 g/dL\"}",
            "{ \"text\" : \"WBC 7.2\", \"pages\": 2 }\n",
            "{\"text\": \"\"}",
            "{\"text\": \"He said \\\"normal\\\"\"}",
            "{\"text\": \"first\", \"text\": \"second\"}"} |->
     CASE raw = "{\"text\": \"Hemoglobin 13.5 g/dL\"}" -> "Hemoglobin 13.5 g/dL"
       [] raw = "{ \"text\" : \"WBC 7.2\", \"pages\": 2 }\n" -> "WBC 7.2"
       [] raw = "{\"text\": \"\"}" -> ""
       [] raw = "{\"text\": \"He said \\\"normal\\\"\"}" -> "He said \"normal\""
       [] raw = "{\"text\": \"first\", \"text\": \"second\"}" -> "second"]

\* C11: under the parse-with-fallback policy an extraction whose model call
\* gave a response never fails, whatever the shape of the response: a response
\* that is a JSON object with a string field text gives that field's value,
\* and every other response (not JSON, or JSON of another shape) gives
\* {text: the entire raw response}.
C11_ParseWithFallback ==
  (ex.variant = "fallback" /\ ex.pc = "done" /\ ex.raw \in RawResponses) =>
    /\ ex.result.kind = "return"
    /\ ex.result.value =
         [text |-> IF ex.raw \in DOMAIN C11_TextFieldOf
                   THEN C11_TextFieldOf[ex.raw] ELSE ex.raw]

\* The model answered with JSON of another shape, and the flow fell back.
C11_Witness ==
  /\ ex.variant = "fallback" /\ ex.pc = "done"
  /\ ex.raw = "{\"text\": 42}"
  /\ ex.result = [kind |-> "return", value |-> [text |-> "{\"text\": 42}"]]

\* C18: a text-extraction request invokes the document-understanding model
\* exactly once, in the version that parses the response itself (its fallback
\* path included) and in the version that asks for structured output.
C18_ModelInvokedOnce ==
  ex.pc \in {"awaitModel", "done"} => ex.modelCalls = 1

\* The parsing version finished on its fallback path.
C18_Witness ==
  /\ ex.variant = "fallback" /\ ex.pc = "done"
  /\ ex.raw = "Hemoglobin 13.5 g/dL"
  /\ ex.result = [kind |-> "return", value |-> [text |-> ex.raw]]
  /\ ex.modelCalls = 1

\* C20 (as claimed): on the reports page every upload that handleFileChange
\* started has, once its handlers have run to their end, set isUploading back
\* to false, whether reading, extraction, storage upload and record creation
\* succeeded or one of them failed.
C20_UploadClearsFlag ==
  (rp.pc = "idle" /\ rp.outcome # "none") => ~rp.isUploading

\* C14: chunks are immutable once created: no step of an ingestion, a query
\* or a report deletion changes or removes a record of the vector collection;
\* every record stays stored with its id, text and owner/document metadata.
C14_ChunksImmutable ==
  [][\A k \in 1..Len(store) : Len(store') >= k /\ store'[k] = store[k]]_vars

\* userB's chunk of doc1 is still stored as written after userA ingested a
\* document of the same id, a query ran and the report was deleted.
C14_Witness ==
  /\ Len(store) >= 1
  /\ store[1].id = "doc1-chunk-0" /\ store[1].metadata.userId = "userB"
  /\ \E p, q \in Procs :
       /\ req[p].kind = "index" /\ req[p].pc = "done"
       /\ req[p].input.reportId = "doc1" /\ req[p].input.userId = "userA"
       /\ req[p].result = [kind |-> "return", value |-> [success |-> TRUE]]
       /\ req[q].kind = "answer" /\ req[q].pc = "done"
       /\ req[q].result.kind = "return"
  /\ rp.toast = "Report Deleted" /\ rp.docs = <<>> /\ rp.objects = {}

\* C21 (as claimed): report deletion is all-or-nothing with respect to its
\* message: when handleDelete has ended with "Deletion Failed" the report's
\* database record still exists, and when it has ended with "Report Deleted"
\* the database record and the stored file are both gone.
C21_DeleteAllOrNothing ==
  rp.del.pc = "idle" =>
    /\ rp.del.outcome = "Deletion Failed" =>
         \E k \in 1..Len(rp.docs) : rp.docs[k].id = rp.del.report.id
    /\ rp.del.outcome = "Report Deleted" =>
         /\ \A k \in 1..Len(rp.docs) : rp.docs[k].id # rp.del.report.id
         /\ rp.del.report.imageUrl \notin rp.objects

\* The message list is (user, ai) pairs, followed by one more user message
\* exactly while a request is in flight.
C22_Paired(c) ==
  /\ Len(c.messages) % 2 = (IF c.isLoading THEN 1 ELSE 0)
  /\ \A k \in 1..Len(c.messages) :
       c.messages[k].sender = (IF k % 2 = 1 THEN "user" ELSE "ai")

\* C22: on the chat page, whenever isLoading is false the message list is a
\* sequence of (user message, ai message) pairs. A step changes the list only
\* by an accepted send (one user message, isLoading true, or together with
\* the no-text reply, isLoading false) or by a completion (one ai message,
\* isLoading false); while isLoading is true, the input is blank or there
\* are no reports, a send changes neither the list nor isLoading.
C22_MessagePairs ==
  [][/\ C22_Paired(chat')
     /\ LET blank == chat.input \in {"", "  "}
            noReports == chat.reports \in {NoData, Loaded(<<>>)}
            added == Len(chat'.messages) - Len(chat.messages)
        IN /\ added \in 0..2
           /\ SubSeq(chat'.messages, 1, Len(chat.messages)) = chat.messages
           /\ added = 0 => chat'.isLoading = chat.isLoading
           /\ (~chat.isLoading /\ (blank \/ noReports)) => added = 0
           /\ chat.isLoading => (added = 0 \/ (added = 1 /\ ~chat'.isLoading))
           /\ (~chat.isLoading /\ added = 1) => chat'.isLoading
           /\ added = 2 => (~chat.isLoading /\ ~chat'.isLoading)]_vars

\* Two sends have completed, one by the no-text reply and one by the error
\* reply.
C22_Witness ==
  /\ ~chat.isLoading
  /\ Len(chat.messages) = 4
  /\ \E j, k \in {2, 4} :
       /\ chat.messages[j].text = NoTextReply(chat.version)
       /\ chat.messages[k].text = ErrorReply(chat.version)

\* C23 (as claimed): on either version of the chat page, a send accepted while
\* every report's text is empty or missing appends the user message and the
\* fixed no-extractable-text reply, and starts no request to the answer flow.
C23_NoTextReplyNoCall ==
  [][(/\ ~chat.isLoading
      /\ chat.input \notin {"", "  "}
      /\ ~chat.reports.isNull /\ Len(chat.reports.list) > 0
      /\ \A k \in 1..Len(chat.reports.list) :
           chat.reports.list[k].text \in {"", UNDEFINED}
      /\ chat'.messages # chat.messages)
     => /\ chat'.messages =
             chat.messages
             \o <<[sender |-> "user", text |-> chat.input],
                  [sender |-> "ai", text |-> NoTextReply(chat.version)]>>
        /\ req' = req]_vars

\* C24 (as claimed): in UserProvider, once the authentication service has
\* reported an auth state and every callback of the session has run to its
\* end, loading is false, also when reading or creating the profile document
\* failed, and the user exposed is the one of the most recent auth-state event.
C24_LoadingEndsUserIsLatest ==
  \A s \in Sessions :
    (/\ up.sess[s].events > 0
     /\ \A i \in 1..Len(up.cbs) : up.cbs[i].s # s)
    => /\ ~up.sess[s].loading
       /\ up.sess[s].user = up.sess[s].lastEvent

\* C25 (as claimed): over any interleaving of auth-state callbacks for the
\* same user, in one session or several, the profile document is written at
\* most once and a profile document that exists is never overwritten.
C25_ProfileWrittenOnce ==
  /\ up.written <= 1
  /\ up.overwritten = 0

\* C26 (as claimed): every request to the SMS route ends in a response. The
\* response says success: true only when the provider's data has return ===
\* true and a request_id. Without the API key the response has status 500 and
\* no outbound request was made; with the key and without phone or message it
\* has status 400 and no outbound request was made; every other outcome is
\* success: false with status 500.
C26_SmsOutcomes ==
  sms.pc = "done" =>
    /\ sms.result.kind = "response"
    /\ LET body == sms.result.body
           status == sms.result.status
           incomplete == \/ sms.request.phone \in {"", UNDEFINED}
                         \/ sms.request.message \in {"", UNDEFINED}
           accepted == /\ "return" \in DOMAIN sms.data
                       /\ sms.data.return = "true"
                       /\ sms.data.request_id \notin {"", UNDEFINED}
       IN /\ body.success <=> accepted
          /\ ~sms.keySet => (status = 500 /\ ~body.success /\ sms.fetches = 0)
          /\ (sms.keySet /\ incomplete) => (status = 400 /\ ~body.success /\ sms.fetches = 0)
          /\ (sms.keySet /\ ~incomplete /\ ~accepted) => (status = 500 /\ ~body.success)

\* C27: on the reminders page the history changes only by a send that
\* succeeded, which puts exactly one entry, the submitted values, in front of
\* the others, or by a deletion, which removes the entry of the clicked row
\* and no other; a send that failed leaves the history as it was, and
\* isSending is false once a submission has completed.
C27_HistoryFollowsSends ==
  [][LET completes == rem.pc = "awaitSend" /\ rem'.pc = "idle"
         before == rem.reminders
         after == rem'.reminders
     IN /\ rem'.pc = "idle" => ~rem'.isSending
        /\ (completes /\ rem'.lastSend = "failed") => after = before
        /\ (completes /\ rem'.lastSend = "ok") =>
             /\ Len(after) = Len(before) + 1
             /\ Tail(after) = before
             /\ \A f \in DOMAIN rem.values : after[1][f] = rem.values[f]
        /\ (~completes /\ after # before) =>
             /\ rem'.clicked \in 1..Len(before)
             /\ after = SubSeq(before, 1, rem'.clicked - 1)
                        \o SubSeq(before, rem'.clicked + 1, Len(before))]_vars

\* After three sends, one of them failed, the older of the two entries was
\* deleted: the newer one is left.
C27_Witness ==
  /\ rem.pc = "idle" /\ ~rem.isSending
  /\ rem.submits = 3 /\ rem.lastSend = "failed"
  /\ rem.toast = "Reminder Deleted" /\ rem.clicked = 2
  /\ Len(rem.reminders) = 1

====
